---- MODULE Spec2Model ----
(***************************************************************************)
(* cpmadd88: writing one host file into the trailing free space of a CP/M  *)
(* file system held in a .d88 disk image (src/cpmadd88.c).                 *)
(*                                                                         *)
(* The image is a byte file.  The model keeps it as the image the run      *)
(* started from (dir0 for the directory, a formatted data area) overlaid   *)
(* with the fwrite calls made so far (writes), each at its byte offset in  *)
(* the image file.  Buffers are sequences of bytes 0..255; byte i of a C   *)
(* array is element i+1 of the sequence.                                   *)
(***************************************************************************)
EXTENDS Integers, Sequences, FiniteSets, TLC

VARIABLES
    cpm_filename,           \* argv[2], a sequence of character codes
    srcLen,                 \* length in bytes of the host file
    dir0,                   \* the directory of the image at start: slot -> 32 bytes
    name,                   \* char name[8]
    extension,              \* char extension[3]
    FCB_buff,               \* char FCB_buff[32]
    record_buff,            \* char record_buff[128]
    last_living_block_num,
    last_living_FCB_num,
    same_name,              \* the value same_name_check() returned
    used_FCBs,
    written_records,
    rpos,                   \* file position of rfp
    writes,                 \* the fwrite calls on wfp so far, in order
    pc,                     \* position in write_in
    outcome                 \* which message write_in ended with

vars == <<cpm_filename, srcLen, dir0, name, extension, FCB_buff, record_buff,
          last_living_block_num, last_living_FCB_num, same_name, used_FCBs,
          written_records, rpos, writes, pc, outcome>>

----------------------------------------------------------------------------
(* Geometry, src/cpmadd88.c:81-85 and 101-102 *)

DATA_BLOCK_SIZE == 2048
BPS == 256
SPT == 32
TRACKS == 40
RPD == 16

num_of_FCBs == (DATA_BLOCK_SIZE * 2) \div 32

num_of_data_blocks == (BPS * SPT * (TRACKS - 2)) \div DATA_BLOCK_SIZE

Max(S) == CHOOSE x \in S : \A y \in S : y <= x

Min2(a, b) == IF a < b THEN a ELSE b

Fill(n, b) == [k \in 1..n |-> b]

----------------------------------------------------------------------------
(* Address arithmetic *)

\* convert_addr without the 16-byte header of every sector after the first
convert_addr_flat(addr) == 43 * 16 + 16 + addr

convert_addr(addr) == 43 * 16 + 16 + addr + 16 * (addr \div 256)

head_addr_of_data_block(block_number) ==
    BPS * SPT * 2 + DATA_BLOCK_SIZE * block_number

head_addr_of_FCB(FCB_number) == head_addr_of_data_block(0) + 32 * FCB_number

head_addr_of_record(record_number) ==
    head_addr_of_data_block(record_number \div RPD) + 128 * (record_number % RPD)

----------------------------------------------------------------------------
(* The image file *)

\* A formatted, never written byte of the disk.
BlankByte == 229

\* The byte at offset off of the image file before write_in runs: 43 lines of
\* 16 bytes, then 256-byte sectors each behind a 16-byte header; the
\* directory slots lie from the head of data block 0.
InitImageByte(off) ==
    IF off < 43 * 16 THEN 0
    ELSE LET q == (off - 43 * 16) \div (16 + 256)
             r == (off - 43 * 16) % (16 + 256)
             addr == 256 * q + (r - 16)
             rel == addr - head_addr_of_data_block(0)
         IN  IF r < 16 THEN 0
             ELSE IF rel >= 0 /\ (rel \div 32) \in DOMAIN dir0
                  THEN dir0[rel \div 32][(rel % 32) + 1]
                  ELSE BlankByte

\* The fwrite calls of ws that touch some byte of off .. off+n-1.
Touching(ws, off, n) ==
    {k \in 1..Len(ws) : ws[k].off < off + n /\ off < ws[k].off + Len(ws[k].data)}

\* fseek(fp, off, SEEK_SET); fread(buf, 1, n, fp) on the image after the
\* fwrite calls ws.
ReadImage(ws, off, n) ==
    LET T == Touching(ws, off, n)
    IN  [k \in 1..n |->
           LET o == off + k - 1
               C == {w \in T : ws[w].off <= o /\ o < ws[w].off + Len(ws[w].data)}
           IN  IF C = {} THEN InitImageByte(o)
               ELSE ws[Max(C)].data[o - ws[Max(C)].off + 1]]

\* Directory slot FCB_number and record record_number as the image holds them.
FCB_at(ws, FCB_number) == ReadImage(ws, convert_addr(head_addr_of_FCB(FCB_number)), 32)

record_at(ws, record_number) ==
    ReadImage(ws, convert_addr(head_addr_of_record(record_number)), 128)

----------------------------------------------------------------------------
(* Names *)

toupper(c) == IF c >= 97 /\ c <= 122 THEN c - 32 ELSE c

HasDot(fn) == \E i \in 1..Len(fn) : fn[i] = 46

\* strrchr(cpm_filename, '.') as a 0-based index
strrchr_dot(fn) == Max({i \in 1..Len(fn) : fn[i] = 46}) - 1

\* separate_name splitting at the first '.' (strchr in place of strrchr)
separate_name_strchr(fn) ==
    LET dot == (CHOOSE i \in 1..Len(fn) : fn[i] = 46 /\ \A j \in 1..(i - 1) : fn[j] # 46) - 1
        ext == SubSeq(fn, dot + 2, Len(fn))
        len1 == Len(fn) - Len(ext) - 1
        len2 == Len(ext)
    IN  [name |-> [i \in 1..8 |-> IF i <= Min2(len1, 8) THEN toupper(fn[i]) ELSE 32],
         extension |-> [i \in 1..3 |-> IF i <= Min2(len2, 3) THEN toupper(ext[i]) ELSE 32]]

separate_name(fn) ==
    LET dot == strrchr_dot(fn)
        ext == SubSeq(fn, dot + 2, Len(fn))
        len1 == Len(fn) - Len(ext) - 1
        len2 == Len(ext)
    IN  [name |-> [i \in 1..8 |-> IF i <= Min2(len1, 8) THEN toupper(fn[i]) ELSE 32],
         extension |-> [i \in 1..3 |-> IF i <= Min2(len2, 3) THEN toupper(ext[i]) ELSE 32]]

is_name_ext(fcb, nm, ex) ==
    /\ \A i \in 1..8 : fcb[i + 1] = nm[(i - 1) + 1]
    /\ \A i \in 9..11 : fcb[i + 1] = ex[(i - 9) + 1]

----------------------------------------------------------------------------
(* The directory scan *)

\* The value of a char holding byte b: plain char is signed or unsigned as
\* the build has it.
char_value(b, signed) == IF signed /\ b >= 128 THEN b - 256 ELSE b

\* same_name_check with r assigned at every living slot (r = is_name_ext())
same_name_check_last(ws, nm, ex, signed, llf, llb) ==
    LET fcbs == [i \in 0..(num_of_FCBs - 1) |-> FCB_at(ws, i)]
        living == {i \in 0..(num_of_FCBs - 1) : fcbs[i][0 + 1] = 0}
    IN  [r |-> IF living # {} /\ is_name_ext(fcbs[Max(living)], nm, ex) THEN 1 ELSE 0,
         last_living_FCB_num |-> IF living = {} THEN llf ELSE Max(living),
         last_living_block_num |->
             Max({llb} \cup {char_value(fcbs[i][j + 1], signed) :
                               i \in living, j \in 16..31})]

\* same_name_check leaving the loop at the first living slot with the name
same_name_check_break(ws, nm, ex, signed, llf, llb) ==
    LET fcbs == [i \in 0..(num_of_FCBs - 1) |-> FCB_at(ws, i)]
        found == {i \in 0..(num_of_FCBs - 1) :
                    fcbs[i][0 + 1] = 0 /\ is_name_ext(fcbs[i], nm, ex)}
        seen == {i \in 0..(num_of_FCBs - 1) : \A h \in found : i <= h}
        living == {i \in seen : fcbs[i][0 + 1] = 0}
    IN  [r |-> IF \E i \in living : is_name_ext(fcbs[i], nm, ex) THEN 1 ELSE 0,
         last_living_FCB_num |-> IF living = {} THEN llf ELSE Max(living),
         last_living_block_num |->
             Max({llb} \cup {char_value(fcbs[i][j + 1], signed) :
                               i \in living, j \in 16..31})]

\* same_name_check(): every one of the num_of_FCBs slots is read; r becomes 1
\* at a living slot that carries the name, last_living_FCB_num ends as the last
\* living slot, last_living_block_num as the greatest char of the allocation
\* maps of the living slots that exceeds its value at entry.
same_name_check(ws, nm, ex, signed, llf, llb) ==
    LET fcbs == [i \in 0..(num_of_FCBs - 1) |-> FCB_at(ws, i)]
        living == {i \in 0..(num_of_FCBs - 1) : fcbs[i][0 + 1] = 0}
    IN  [r |-> IF \E i \in living : is_name_ext(fcbs[i], nm, ex) THEN 1 ELSE 0,
         last_living_FCB_num |-> IF living = {} THEN llf ELSE Max(living),
         last_living_block_num |->
             Max({llb} \cup {char_value(fcbs[i][j + 1], signed) :
                               i \in living, j \in 16..31})]

----------------------------------------------------------------------------
(* Buffers *)

init_FCB_buf(nm, ex) == <<0>> \o nm \o ex \o Fill(20, 0)

init_record_buf == Fill(128, 26)

\* Byte p of the host file.
SrcByte(p) == (p * 7 + 65) % 256

\* fread(record_buff, 1, 128, rfp) at file position p: the number of bytes
\* read and the buffer afterwards.
fread_count(p, len) == Min2(128, len - p)

fread_record(buf, p, len) ==
    [k \in 1..128 |-> IF k <= fread_count(p, len) THEN SrcByte(p + k - 1) ELSE buf[k]]

save_FCB(ws, fcb, FCB_number) ==
    Append(ws, [kind |-> "FCB", num |-> FCB_number,
                off |-> convert_addr(head_addr_of_FCB(FCB_number)), data |-> fcb])

save_record(ws, rec, record_number) ==
    Append(ws, [kind |-> "record", num |-> record_number,
                off |-> convert_addr(head_addr_of_record(record_number)), data |-> rec])

----------------------------------------------------------------------------
(* Inputs: host file names, host file lengths, directories *)

\* How many of the last directory slots the nearly full directories leave free.
MaxFree == 3

\* The longest host files span MaxExtents * 128 records and one byte more.
MaxExtents == 4

\* "hello.txt", "HELLO.TXT", "verylongname.text", "a.b.c", "x.", "noext"
FileNames ==
    { <<104, 101, 108, 108, 111, 46, 116, 120, 116>>,
      <<72, 69, 76, 76, 79, 46, 84, 88, 84>>,
      <<118, 101, 114, 121, 108, 111, 110, 103, 110, 97, 109, 101, 46, 116, 101, 120, 116>>,
      <<97, 46, 98, 46, 99>>,
      <<120, 46>>,
      <<110, 111, 101, 120, 116>> }

LongFileName == <<104, 101, 108, 108, 111, 46, 116, 120, 116>>

ShortLens == {0, 1, 127, 128, 129, 300, 2100}

LongLens == {128 * 128 * k + d : k \in 1..MaxExtents, d \in {-1, 0, 1}}

Entry(st, nm, ex, xl, rc, map) == <<st>> \o nm \o ex \o <<xl, 0, 0, rc>> \o map

BlockMap(first, count) == [k \in 1..16 |-> IF k <= count THEN first + k - 1 ELSE 0]

\* "Fnnn    ", "DAT", "HELLO   ", "TXT"
FName(i) == <<70, 48 + (i \div 100), 48 + ((i \div 10) % 10), 48 + (i % 10), 32, 32, 32, 32>>
DAT == <<68, 65, 84>>
HELLO == <<72, 69, 76, 76, 79, 32, 32, 32>>
TXT == <<84, 88, 84>>

\* Slots 0 .. n-1 live, the file of slot i in data block 2 + i.
Filled(n) == [i \in 0..(n - 1) |-> Entry(0, FName(i), DAT, 0, 16, BlockMap(2 + i, 1))]

\* HELLO.TXT live in slot 2, live files before and after it.
DirDup ==
    (0 :> Entry(0, FName(0), DAT, 0, 32, BlockMap(2, 2))) @@
    (2 :> Entry(0, HELLO, TXT, 0, 20, BlockMap(4, 2))) @@
    (4 :> Entry(0, FName(4), DAT, 0, 64, BlockMap(6, 4)))

\* HELLO.TXT erased in slot 0 and under status 1 in slot 3; one live file.
DirErased ==
    (0 :> Entry(229, HELLO, TXT, 0, 32, BlockMap(40, 2))) @@
    (1 :> Entry(0, FName(1), DAT, 0, 32, BlockMap(2, 2))) @@
    (3 :> Entry(1, HELLO, TXT, 0, 16, BlockMap(50, 1)))

\* One live file of 256 records in data blocks 120 .. 135.
DirHigh == (0 :> Entry(0, FName(0), DAT, 1, 128, BlockMap(120, 16)))

\* A live file in slot 5 whose last data block is block last.
DirLast(last) == (5 :> Entry(0, FName(5), DAT, 0, 16, BlockMap(last, 1)))

ShortDirs ==
    {Filled(n) : n \in {0, 1, 2}} \cup
    {Filled(num_of_FCBs - f) : f \in 0..MaxFree} \cup
    {DirDup, DirErased, DirHigh,
     DirLast(num_of_data_blocks - 2), DirLast(num_of_data_blocks - 1)}

LongDirs ==
    {Filled(0), Filled(num_of_FCBs - 2), Filled(num_of_FCBs - 1), Filled(num_of_FCBs),
     DirHigh}

----------------------------------------------------------------------------
(* write_in, src/cpmadd88.c:216-266 *)

Init ==
    /\ \/ /\ cpm_filename \in FileNames
          /\ srcLen \in ShortLens
          /\ dir0 \in ShortDirs
       \/ /\ cpm_filename = LongFileName
          /\ srcLen \in LongLens
          /\ dir0 \in LongDirs
    /\ name = Fill(8, 32)
    /\ extension = Fill(3, 32)
    /\ FCB_buff = Fill(32, 0)
    /\ record_buff = Fill(128, 0)
    /\ last_living_block_num = 1
    /\ last_living_FCB_num = -1
    /\ same_name = 0
    /\ used_FCBs = 0
    /\ written_records = 0
    /\ rpos = 0
    /\ writes = <<>>
    /\ pc = "start"
    /\ outcome = "none"

\* separate_name() on a file name with a '.'
SeparateName ==
    /\ pc = "start"
    /\ HasDot(cpm_filename)
    /\ name' = separate_name(cpm_filename).name
    /\ extension' = separate_name(cpm_filename).extension
    /\ pc' = "scan"
    /\ UNCHANGED <<cpm_filename, srcLen, dir0, FCB_buff, record_buff,
                   last_living_block_num, last_living_FCB_num, same_name,
                   used_FCBs, written_records, rpos, writes, outcome>>

\* separate_name() on a file name without '.': strrchr returns NULL and
\* strlen reads from address 1; the process ends there.
SeparateNameNoDot ==
    /\ pc = "start"
    /\ ~HasDot(cpm_filename)
    /\ pc' = "done"
    /\ outcome' = "Fault"
    /\ UNCHANGED <<cpm_filename, srcLen, dir0, name, extension, FCB_buff, record_buff,
                   last_living_block_num, last_living_FCB_num, same_name,
                   used_FCBs, written_records, rpos, writes>>

\* same_name_check(), in a build with signed or with unsigned plain char
Scan ==
    /\ pc = "scan"
    /\ \E signed \in BOOLEAN :
         LET s == same_name_check(writes, name, extension, signed,
                                  last_living_FCB_num, last_living_block_num)
         IN  /\ same_name' = s.r
             /\ last_living_FCB_num' = s.last_living_FCB_num
             /\ last_living_block_num' = s.last_living_block_num
    /\ FCB_buff' = FCB_at(writes, num_of_FCBs - 1)
    /\ pc' = "checked"
    /\ UNCHANGED <<cpm_filename, srcLen, dir0, name, extension, record_buff,
                   used_FCBs, written_records, rpos, writes, outcome>>

\* "A same name file exists. Cancel writing."
Cancel ==
    /\ pc = "checked"
    /\ same_name # 0
    /\ pc' = "done"
    /\ outcome' = "NameConflict"
    /\ UNCHANGED <<cpm_filename, srcLen, dir0, name, extension, FCB_buff, record_buff,
                   last_living_block_num, last_living_FCB_num, same_name,
                   used_FCBs, written_records, rpos, writes>>

\* fopen of both files and the initialisations before the loop
Open ==
    /\ pc = "checked"
    /\ same_name = 0
    /\ used_FCBs' = 0
    /\ written_records' = 0
    /\ rpos' = 0
    /\ FCB_buff' = init_FCB_buf(name, extension)
    /\ record_buff' = init_record_buf
    /\ pc' = "loop"
    /\ UNCHANGED <<cpm_filename, srcLen, dir0, name, extension,
                   last_living_block_num, last_living_FCB_num, same_name,
                   writes, outcome>>

\* The capacity test with > for >= on the record position
no_capacity_late(llf, llb, used, written) ==
    \/ llf + used >= num_of_FCBs
    \/ RPD * (llb + 1) + written > RPD * num_of_data_blocks

\* The capacity test at the head of the loop body
no_capacity(llf, llb, used, written) ==
    \/ llf + used >= num_of_FCBs
    \/ RPD * (llb + 1) + written >= RPD * num_of_data_blocks

\* The record number with written_records taken after its increment
record_pos_after(llb, written) == RPD * (llb + 1) + written + 1

\* The record number save_record is called with
record_pos(llb, written) == RPD * (llb + 1) + written

\* The slot save_FCB is called with
FCB_slot(llf, used) == llf + 1 + (used % 2)

\* The condition of the save_FCB call inside the loop
flush_due(written) == written = BPS

\* update_FCB without the 0x80 for a full count
update_FCB_mod128(fcb, llb, used, written) ==
    LET written_blocks == (written \div RPD) + (IF written % RPD # 0 THEN 1 ELSE 0)
        offset == (16 + written_blocks - 1) % 16
    IN  [fcb EXCEPT ![12 + 1] = used % 256,
                    ![15 + 1] = written % 128,
                    ![16 + offset + 1] = (llb + written_blocks) % 256]

\* The assignments to FCB_buff[12], [15] and the allocation map after record
\* number written (counted from 1) was saved
update_FCB(fcb, llb, used, written) ==
    LET written_blocks == (written \div RPD) + (IF written % RPD # 0 THEN 1 ELSE 0)
        offset == (16 + written_blocks - 1) % 16
    IN  [fcb EXCEPT ![12 + 1] = used % 256,
                    ![15 + 1] = IF written % 128 # 0 THEN written % 128 ELSE 128,
                    ![16 + offset + 1] = (llb + written_blocks) % 256]

\* The loop left by break instead of return: the save_FCB after the loop runs
AbortThenSave ==
    /\ pc = "loop"
    /\ fread_count(rpos, srcLen) > 0
    /\ no_capacity(last_living_FCB_num, last_living_block_num, used_FCBs, written_records)
    /\ record_buff' = fread_record(record_buff, rpos, srcLen)
    /\ rpos' = rpos + fread_count(rpos, srcLen)
    /\ writes' = save_FCB(writes, FCB_buff, FCB_slot(last_living_FCB_num, used_FCBs))
    /\ pc' = "done"
    /\ outcome' = "CapacityExceeded"
    /\ UNCHANGED <<cpm_filename, srcLen, dir0, name, extension, FCB_buff,
                   last_living_block_num, last_living_FCB_num, same_name,
                   used_FCBs, written_records>>

\* One pass of the loop body that ends in "Not enough capacity."
Abort ==
    /\ pc = "loop"
    /\ fread_count(rpos, srcLen) > 0
    /\ no_capacity(last_living_FCB_num, last_living_block_num, used_FCBs, written_records)
    /\ record_buff' = fread_record(record_buff, rpos, srcLen)
    /\ rpos' = rpos + fread_count(rpos, srcLen)
    /\ pc' = "done"
    /\ outcome' = "CapacityExceeded"
    /\ UNCHANGED <<cpm_filename, srcLen, dir0, name, extension, FCB_buff,
                   last_living_block_num, last_living_FCB_num, same_name,
                   used_FCBs, written_records, writes>>

\* One full pass of the loop body
WriteChunk ==
    /\ pc = "loop"
    /\ fread_count(rpos, srcLen) > 0
    /\ ~no_capacity(last_living_FCB_num, last_living_block_num, used_FCBs, written_records)
    /\ LET rec == fread_record(record_buff, rpos, srcLen)
           w1 == save_record(writes, rec, record_pos(last_living_block_num, written_records))
           written == written_records + 1
           fcb == update_FCB(FCB_buff, last_living_block_num, used_FCBs, written)
           used == IF written % 128 = 0 THEN used_FCBs + 1 ELSE used_FCBs
       IN  /\ written_records' = written
           /\ used_FCBs' = used
           /\ IF flush_due(written)
              THEN /\ writes' = save_FCB(w1, fcb, FCB_slot(last_living_FCB_num, used))
                   /\ FCB_buff' = init_FCB_buf(name, extension)
              ELSE /\ writes' = w1
                   /\ FCB_buff' = fcb
    /\ record_buff' = init_record_buf
    /\ rpos' = rpos + fread_count(rpos, srcLen)
    /\ UNCHANGED <<cpm_filename, srcLen, dir0, name, extension,
                   last_living_block_num, last_living_FCB_num, same_name, pc, outcome>>

\* fread returns 0: the save_FCB after the loop, fclose, "Done."
Finish ==
    /\ pc = "loop"
    /\ fread_count(rpos, srcLen) = 0
    /\ writes' = save_FCB(writes, FCB_buff, FCB_slot(last_living_FCB_num, used_FCBs))
    /\ pc' = "done"
    /\ outcome' = "Success"
    /\ UNCHANGED <<cpm_filename, srcLen, dir0, name, extension, FCB_buff, record_buff,
                   last_living_block_num, last_living_FCB_num, same_name,
                   used_FCBs, written_records, rpos>>

Next ==
    \/ SeparateName
    \/ SeparateNameNoDot
    \/ Scan
    \/ Cancel
    \/ Open
    \/ Abort
    \/ WriteChunk
    \/ Finish

Spec == Init /\ [][Next]_vars

\* The runs on images whose last two directory slots are not in use.
InitRoomy == Init /\ \A i \in DOMAIN dir0 : i + 2 < num_of_FCBs

SpecRoomy == InitRoomy /\ [][Next]_vars

----------------------------------------------------------------------------
(* What the claims speak of *)

Slots == 0..127

\* The slots that were live (status byte 0) in the image at start.
LiveAtStart == {i \in DOMAIN dir0 : dir0[i][1] = 0}

\* Slot i of the image at start.
SlotAtStart(i) == IF i \in DOMAIN dir0 THEN dir0[i] ELSE Fill(32, BlankByte)

\* The 11 bytes the target's name is encoded to.
Target == name \o extension

\* The slots of the image at start that are live and carry the target's name.
Duplicates == {i \in LiveAtStart : SubSeq(dir0[i], 2, 12) = Target}

\* The data blocks the live entries of the image at start refer to.
BlocksAtStart ==
    {dir0[i][j + 1] : i \in LiveAtStart, j \in 16..31} \cap 2..151

\* The bytes off .. off+n-1 of the image are what they were at start.
Untouched(off, n) ==
    \/ Touching(writes, off, n) = {}
    \/ ReadImage(writes, off, n) = ReadImage(<<>>, off, n)

\* The number of 128-byte chunks of the host file.
Chunks == (srcLen + 127) \div 128

\* The live slots of the image as it is now that carry the target's name, and
\* those among them that the run made so.
FileSlots == {i \in Slots : FCB_at(writes, i)[1] = 0
                            /\ SubSeq(FCB_at(writes, i), 2, 12) = Target}

NewFileSlots == {i \in FileSlots : i \notin Duplicates}

FCBWrites == {k \in 1..Len(writes) : writes[k].kind = "FCB"}

RecordWrites == {k \in 1..Len(writes) : writes[k].kind = "record"}

----------------------------------------------------------------------------
\* C1: when a slot of status 0 carries the target's encoded name and extension,
\* the write ends in NameConflict and nothing at all is written to the image.
C1_ConflictWritesNothing ==
    (pc # "start" /\ outcome # "Fault" /\ Duplicates # {}) =>
        /\ writes = <<>>
        /\ pc = "done" => outcome = "NameConflict"

C1_Witness ==
    /\ pc = "done"
    /\ outcome = "NameConflict"
    /\ Duplicates # {}
    /\ \E i \in LiveAtStart : i > Max(Duplicates)

\* C2: after a write that ends in Success or CapacityExceeded, every slot that
\* was live at start holds its 32 bytes and every record of every data block a
\* live entry referred to holds its 128 bytes.
C2_LiveEntriesAndBlocksKept ==
    (pc = "done" /\ outcome \in {"Success", "CapacityExceeded"}) =>
        /\ \A i \in LiveAtStart :
             Untouched(convert_addr(head_addr_of_FCB(i)), 32)
        /\ \A b \in BlocksAtStart : \A r \in 0..15 :
             Untouched(convert_addr(head_addr_of_record(16 * b + r)), 128)

\* C3: every directory-entry write, in the loop or after it, goes to a slot
\* index in 0..127.
C3_EntryWritesInsideDirectory ==
    \A k \in FCBWrites : writes[k].num \in 0..127

\* C4: every record is written at an index r with 32 <= r < 2432, and a chunk
\* that would land at 2432 or beyond is not written: the run ends in
\* CapacityExceeded.
C4_RecordsInsideDataArea ==
    /\ \A k \in RecordWrites :
         /\ writes[k].num >= 32
         /\ writes[k].num < 2432
         /\ (writes[k].num \div 16) \in 2..151
    /\ (pc = "loop" /\ rpos < srcLen
        /\ 16 * (last_living_block_num + 1) + written_records >= 2432) =>
           (~ENABLED WriteChunk /\ ENABLED Abort)

C4_Witness ==
    /\ pc = "done"
    /\ outcome = "CapacityExceeded"
    /\ 16 * (last_living_block_num + 1) + written_records >= 2432
    /\ \E k \in RecordWrites : writes[k].num = 2431

----------------------------------------------------------------------------
(* Reading a file back through the directory *)

\* The slots of S in increasing order of their extent byte.
RECURSIVE ByExtent(_)
ByExtent(S) ==
    IF S = {} THEN <<>>
    ELSE LET i == CHOOSE x \in S :
                    \A y \in S : FCB_at(writes, x)[12 + 1] <= FCB_at(writes, y)[12 + 1]
         IN  <<i>> \o ByExtent(S \ {i})

\* The record indices an entry stands for, taken from the blocks of its
\* allocation map in slot order. An entry of this disk format holds two
\* extents of 128 records: with an odd extent byte the first half (a0 .. a7)
\* is full and the record count byte counts the records of the second half.
RecordsOf(fcb) ==
    [j \in 1..(128 * (fcb[12 + 1] % 2) + fcb[15 + 1]) |->
        16 * fcb[16 + ((j - 1) \div 16) + 1] + ((j - 1) % 16)]

RECURSIVE RecordsOfAll(_)
RecordsOfAll(slots) ==
    IF slots = <<>> THEN <<>>
    ELSE RecordsOf(FCB_at(writes, Head(slots))) \o RecordsOfAll(Tail(slots))

\* The bytes of the file as the directory of the image gives them.
ReadBack ==
    LET idx == RecordsOfAll(ByExtent(FileSlots))
        recs == [j \in 1..Len(idx) |-> record_at(writes, idx[j])]
    IN  [p \in 1..(128 * Len(idx)) |-> recs[((p - 1) \div 128) + 1][((p - 1) % 128) + 1]]

\* The host file followed by 0x1A up to the next multiple of 128.
Padded == [p \in 1..(128 * Chunks) |-> IF p <= srcLen THEN SrcByte(p - 1) ELSE 26]

----------------------------------------------------------------------------
\* C5: a host file whose length is no multiple of 128 and whose write ends in
\* Success reads back through the directory as its bytes followed by 0x1A up
\* to the next multiple of 128.
C5_RoundTrip ==
    (pc = "done" /\ outcome = "Success" /\ srcLen % 128 # 0) => ReadBack = Padded

\* C6: after a write of N >= 1 records that ends in Success the directory holds
\* exactly ceil(N/128) new entries of the file, with the extent indices
\* 0 .. ceil(N/128)-1; 129 records give two, the second with record count 1.
C6_OneEntryPer128Records ==
    (pc = "done" /\ outcome = "Success" /\ Chunks >= 1) =>
        LET n == (Chunks + 127) \div 128
        IN  /\ Cardinality(NewFileSlots) = n
            /\ {FCB_at(writes, i)[12 + 1] : i \in NewFileSlots} = 0..(n - 1)
            /\ Chunks = 129 =>
                 \E i \in NewFileSlots : /\ FCB_at(writes, i)[12 + 1] = 1
                                         /\ FCB_at(writes, i)[15 + 1] = 1

\* C7 as written: a host file of exactly 16384 bytes whose write ends in
\* Success leaves exactly one new entry of the file, with record count 128 and
\* all 16 slots of the allocation map non-zero.
C7_FullMapOf16 ==
    (pc = "done" /\ outcome = "Success" /\ srcLen = 16384) =>
        /\ Cardinality(NewFileSlots) = 1
        /\ \A i \in NewFileSlots :
             /\ FCB_at(writes, i)[15 + 1] = 128
             /\ \A j \in 16..31 : FCB_at(writes, i)[j + 1] # 0

\* C7 amended: a host file of exactly 16384 bytes whose write ends in Success
\* makes exactly one directory-entry write, for slot lastLiveEntryIndex + 2,
\* which is the one new entry of the file when that slot is in the directory;
\* the entry written carries the file's name, extent index 0, record count 128 and an allocation map whose
\* first 8 slots are the 8 blocks after the last used one and whose other 8
\* slots are 0.
C7_FullEntryOf8Blocks ==
    (pc = "done" /\ outcome = "Success" /\ srcLen = 16384) =>
        /\ Cardinality(FCBWrites) = 1
        /\ \A k \in FCBWrites :
             LET fcb == writes[k].data
             IN  /\ writes[k].num = last_living_FCB_num + 2
                 /\ writes[k].num <= 127 => NewFileSlots = {writes[k].num}
                 /\ fcb[1] = 0
                 /\ SubSeq(fcb, 2, 12) = Target
                 /\ fcb[12 + 1] = 0
                 /\ fcb[15 + 1] = 128
                 /\ \A j \in 0..7 : /\ fcb[16 + j + 1] = last_living_block_num + 1 + j
                                    /\ fcb[16 + j + 1] # 0
                 /\ \A j \in 8..15 : fcb[16 + j + 1] = 0

C7_Witness ==
    /\ pc = "done"
    /\ outcome = "Success"
    /\ srcLen = 16384
    /\ written_records = 128
    /\ \E i \in NewFileSlots : FCB_at(writes, i)[15 + 1] = 128

\* C8: when a write ends in CapacityExceeded every record and every entry it
\* wrote is in the image with the bytes it was written with.
C8_NothingOverwrittenOnAbort ==
    (pc = "done" /\ outcome = "CapacityExceeded") =>
        \A k \in 1..Len(writes) :
            ReadImage(writes, writes[k].off, Len(writes[k].data)) = writes[k].data

C8_Witness ==
    /\ pc = "done"
    /\ outcome = "CapacityExceeded"
    /\ FCBWrites # {}
    /\ RecordWrites # {}

\* C9: the scan returns as lastUsedBlock the greatest of 1 and all the
\* allocation-map bytes, each 0..255, of the slots of status 0, and
\* lastUsedBlock = 1, duplicateFound = false when no slot has status 0.
C9_LastUsedBlockIsMaxByte ==
    pc = "checked" =>
        /\ last_living_block_num =
             Max({1} \cup {dir0[i][j + 1] : i \in LiveAtStart, j \in 16..31})
        /\ LiveAtStart = {} => (last_living_block_num = 1 /\ same_name = 0)

\* C10: the scan returns duplicateFound = true exactly when some slot has
\* status 0 and the target's 11 bytes, and lastLiveEntryIndex = the greatest
\* slot of status 0 (-1 when there is none); slots behind a match count for
\* lastLiveEntryIndex and lastUsedBlock as well.
C10_ScanResult ==
    pc = "checked" =>
        /\ (same_name # 0) <=>
             (\E i \in Slots : SlotAtStart(i)[1] = 0 /\ SubSeq(SlotAtStart(i), 2, 12) = Target)
        /\ last_living_FCB_num =
             (IF \E i \in Slots : SlotAtStart(i)[1] = 0
              THEN Max({i \in Slots : SlotAtStart(i)[1] = 0}) ELSE -1)
        /\ \A i \in Slots : \A j \in 16..31 :
             (SlotAtStart(i)[1] = 0 /\ SlotAtStart(i)[j + 1] < 128) =>
                 last_living_block_num >= SlotAtStart(i)[j + 1]

C10_Witness ==
    /\ pc = "checked"
    /\ same_name = 1
    /\ \E m \in Duplicates :
         /\ last_living_FCB_num > m
         /\ \A i \in LiveAtStart : \A j \in 16..31 :
              i <= m => last_living_block_num > dir0[i][j + 1]

----------------------------------------------------------------------------
\* C11: every directory entry a write persists, for any length of the host
\* file, has a record-count byte in 1..128; a full entry has 128, never 0.
C11_RecordCountFrom1To128 ==
    \A k \in FCBWrites :
        /\ writes[k].data[15 + 1] >= 1
        /\ writes[k].data[15 + 1] <= 128

IsRecordWrite(w) == w.kind = "record"

\* The record numbers the first k fwrite calls saved records at, in order.
RecordNumsUpTo(k) == SelectSeq(SubSeq(writes, 1, k), IsRecordWrite)

\* C12: the allocation map of every entry persisted lists exactly the data
\* blocks that hold the records the entry stands for, from slot 0 on, and 0
\* in every other slot; no block of an earlier entry of the file is left in
\* it. The records of an entry are counted as the disk format has them
\* (RecordsOf): 128 for the full first half under an odd extent byte, plus
\* the record count byte, from record 256 * (extent byte \div 2) of the file.
C12_MapListsBlocksOfExtent ==
    \A k \in FCBWrites :
        LET fcb == writes[k].data
            count == Len(RecordsOf(fcb))
            first == 256 * (fcb[12 + 1] \div 2)
            recs == RecordNumsUpTo(k)
        IN  \A s \in 0..15 :
              IF 16 * s < count
              THEN /\ first + 16 * s + 1 <= Len(recs)
                   /\ fcb[16 + s + 1] = recs[first + 16 * s + 1].num \div 16
              ELSE fcb[16 + s + 1] = 0

\* C13: a host file name without '.' is rejected with InvalidFilename before
\* the directory is scanned or anything is written.
C13_NoDotIsInvalidFilename ==
    (pc = "done" /\ ~HasDot(cpm_filename)) =>
        /\ outcome = "InvalidFilename"
        /\ writes = <<>>
        /\ last_living_FCB_num = -1

----------------------------------------------------------------------------
(* separate_name over many host file names *)

\* The longest middle part of the host file names of SpecNames.
MaxNameLen == 4

\* 'a', 'Z', '.', ' '
NameChars == {97, 90, 46, 32}

Strings(n) == UNION {[1..k -> NameChars] : k \in 0..n}

\* "abcdefg" and "text": with them the name passes 8 and the extension 3 characters
LongStem == <<97, 98, 99, 100, 101, 102, 103>>
LongTail == <<116, 101, 120, 116>>

NameInputs ==
    {pre \o mid \o post : pre \in {<<>>, LongStem}, mid \in Strings(MaxNameLen),
                          post \in {<<>>, LongTail}}

InitNames ==
    /\ cpm_filename \in NameInputs
    /\ srcLen = 0
    /\ dir0 = Filled(0)
    /\ name = Fill(8, 32)
    /\ extension = Fill(3, 32)
    /\ FCB_buff = Fill(32, 0)
    /\ record_buff = Fill(128, 0)
    /\ last_living_block_num = 1
    /\ last_living_FCB_num = -1
    /\ same_name = 0
    /\ used_FCBs = 0
    /\ written_records = 0
    /\ rpos = 0
    /\ writes = <<>>
    /\ pc = "start"
    /\ outcome = "none"

NextNames == SeparateName \/ SeparateNameNoDot

SpecNames == InitNames /\ [][NextNames]_vars

\* The characters before and after the last '.' of a file name that has one.
LastDot(fn) == CHOOSE i \in 1..Len(fn) : fn[i] = 46 /\ \A j \in (i + 1)..Len(fn) : fn[j] # 46
Stem(fn) == SubSeq(fn, 1, LastDot(fn) - 1)
ExtOf(fn) == SubSeq(fn, LastDot(fn) + 1, Len(fn))

\* The first n characters of s in upper case, filled up with spaces.
Field(s, n) == [i \in 1..n |-> IF i <= Len(s) THEN toupper(s[i]) ELSE 32]

\* A field without its trailing spaces, and the file name two fields stand for.
Trim(s) == SubSeq(s, 1, Max({0} \cup {i \in 1..Len(s) : s[i] # 32}))
Render(nm, ex) == Trim(nm) \o <<46>> \o Trim(ex)

\* C14: for every host file name with a '.', separate_name leaves 8 name bytes
\* and 3 extension bytes: the first 8 characters before the last '.' and the
\* first 3 after it, in upper case and filled up with spaces; a name already in
\* that form keeps its characters, and separate_name of the rendering of the
\* result gives the same 8 + 3 bytes.
C14_NameEncoding ==
    (pc = "scan") =>
        /\ Len(name) = 8 /\ Len(extension) = 3
        /\ name = Field(Stem(cpm_filename), 8)
        /\ extension = Field(ExtOf(cpm_filename), 3)
        /\ separate_name(Render(name, extension)) = [name |-> name, extension |-> extension]
        /\ (cpm_filename = Render(name, extension) =>
              /\ SubSeq(name, 1, Len(Stem(cpm_filename))) = Stem(cpm_filename)
              /\ SubSeq(extension, 1, Len(ExtOf(cpm_filename))) = ExtOf(cpm_filename))

\* A name of more than 8 and an extension of more than 3 characters, with
\* lower-case letters and a second '.', has been separated.
C14_Witness ==
    /\ pc = "scan"
    /\ Len(Stem(cpm_filename)) > 8
    /\ Len(ExtOf(cpm_filename)) > 3
    /\ HasDot(Stem(cpm_filename))
    /\ name # SubSeq(cpm_filename, 1, 8)

\* The records the loop has written so far.
RecordsWritten == (rpos + 127) \div 128

\* C15: whenever the number of records written reaches a multiple of 128, the
\* entry buffer is saved to a directory slot and reset before the next chunk
\* is read.
C15_FlushAtEvery128Records ==
    (pc = "loop" /\ RecordsWritten > 0 /\ RecordsWritten % 128 = 0) =>
        /\ writes[Len(writes)].kind = "FCB"
        /\ FCB_buff = init_FCB_buf(name, extension)

\* C16: after a successful write of N >= 1 records the directory holds an
\* entry of the file with extent number ceil(N/128) - 1 and record count
\* N - 128 * (ceil(N/128) - 1), also when N is a multiple of 128 or of 256.
C16_LastExtentCommitted ==
    (pc = "done" /\ outcome = "Success" /\ Chunks >= 1) =>
        \E i \in FileSlots :
            /\ FCB_at(writes, i)[12 + 1] = (Chunks - 1) \div 128
            /\ FCB_at(writes, i)[15 + 1] = Chunks - 128 * ((Chunks - 1) \div 128)

\* Chunk k of the host file as fread and init_record_buf leave it in record_buff.
ChunkOf(k) ==
    [b \in 1..128 |-> IF 128 * (k - 1) + b <= srcLen THEN SrcByte(128 * (k - 1) + b - 1) ELSE 26]

\* C17: the k-th chunk of the host file is written at record number
\* 16 * (last_living_block_num + 1) + (k - 1), with last_living_block_num as
\* the scan left it: the first at record 0 of the block after the last used
\* one, the following ones at consecutive records in the order of the file,
\* no record number twice.
C17_ChunksAtConsecutiveRecords ==
    (pc \in {"loop", "done"}) =>
        LET recs == RecordNumsUpTo(Len(writes))
        IN  /\ pc = "loop" => Len(recs) = RecordsWritten
            /\ \A k \in 1..Len(recs) :
                 /\ recs[k].num = 16 * (last_living_block_num + 1) + (k - 1)
                 /\ recs[k].off = convert_addr(head_addr_of_record(recs[k].num))
            /\ Len(recs) > 0 => recs[Len(recs)].data = ChunkOf(Len(recs))

\* A file of three records or more, the last one partial, has been written
\* after blocks that were in use.
C17_Witness ==
    /\ pc = "done"
    /\ outcome = "Success"
    /\ Len(RecordNumsUpTo(Len(writes))) >= 3
    /\ srcLen % 128 # 0
    /\ last_living_block_num > 1

\* C18: within one write no two save_FCB calls go to the same slot, for any
\* length of the host file: no entry saved inside the loop is overwritten by
\* a later save inside the loop or by the save after it.
C18_NoSlotFlushedTwice ==
    \A k \in FCBWrites : \A h \in FCBWrites :
        k # h => writes[k].num # writes[h].num

----------------------------------------------------------------------------
(* save_FCB and save_record at every slot and every record *)

InitAddr ==
    /\ cpm_filename = LongFileName
    /\ srcLen = 0
    /\ dir0 = Filled(0)
    /\ name = Fill(8, 32)
    /\ extension = Fill(3, 32)
    /\ FCB_buff = Fill(32, 0)
    /\ record_buff = Fill(128, 0)
    /\ last_living_block_num = 1
    /\ last_living_FCB_num = -1
    /\ same_name = 0
    /\ used_FCBs = 0
    /\ written_records = 0
    /\ rpos = 0
    /\ writes = <<>>
    /\ pc = "probe"
    /\ outcome = "none"

\* save_FCB(fp, i) for a slot i of the directory
ProbeFCB ==
    /\ pc = "probe"
    /\ writes = <<>>
    /\ \E i \in 0..(num_of_FCBs - 1) : writes' = save_FCB(writes, FCB_buff, i)
    /\ UNCHANGED <<cpm_filename, srcLen, dir0, name, extension, FCB_buff, record_buff,
                   last_living_block_num, last_living_FCB_num, same_name,
                   used_FCBs, written_records, rpos, pc, outcome>>

\* save_record(fp, r) for a record r of the disk
ProbeRecord ==
    /\ pc = "probe"
    /\ writes = <<>>
    /\ \E r \in 0..(RPD * num_of_data_blocks - 1) :
           writes' = save_record(writes, record_buff, r)
    /\ UNCHANGED <<cpm_filename, srcLen, dir0, name, extension, FCB_buff, record_buff,
                   last_living_block_num, last_living_FCB_num, same_name,
                   used_FCBs, written_records, rpos, pc, outcome>>

NextAddr == ProbeFCB \/ ProbeRecord

SpecAddr == InitAddr /\ [][NextAddr]_vars

\* The logical address an fwrite call starts at.
LogicalAddr(w) ==
    IF w.kind = "FCB" THEN head_addr_of_FCB(w.num) ELSE head_addr_of_record(w.num)

\* Offset off of the image file lies in the 256 bytes of a sector, behind the
\* 43 lines at the head of the file and behind the sector's 16-byte header.
InSectorData(off) == off >= 43 * 16 /\ (off - 43 * 16) % (16 + 256) >= 16

SectorOf(off) == (off - 43 * 16) \div (16 + 256)

\* C19: convert_addr is strictly increasing over the addresses of the disk,
\* and the 32 bytes save_FCB writes for a slot 0..127 and the 128 bytes
\* save_record writes for a record 0..2431 go to the image offsets of their
\* own addresses, inside the 256 bytes of one sector, never to a 16-byte
\* sector header nor to the head of the file.
C19_WritesStayInSectorData ==
    /\ writes = <<>> =>
          \A a \in 0..(head_addr_of_data_block(num_of_data_blocks) - 2) :
              convert_addr(a) < convert_addr(a + 1)
    /\ \A k \in 1..Len(writes) :
          LET w == writes[k]
          IN  /\ \A j \in 0..(Len(w.data) - 1) :
                    /\ w.off + j = convert_addr(LogicalAddr(w) + j)
                    /\ InSectorData(w.off + j)
              /\ SectorOf(w.off) = SectorOf(w.off + Len(w.data) - 1)

\* The last record of the disk, in a sector that lies behind 1200 headers
\* and more, has been written.
C19_Witness ==
    /\ pc = "probe"
    /\ Len(writes) = 1
    /\ writes[1].kind = "record"
    /\ writes[1].num = RPD * num_of_data_blocks - 1
    /\ SectorOf(writes[1].off) > 1200

\* The data blocks the live entries of the image as it is now refer to.
BlocksReferenced ==
    LET fcbs == [i \in Slots |-> FCB_at(writes, i)]
    IN  {fcbs[i][s] : i \in {j \in Slots : fcbs[j][1] = 0}, s \in 17..32}

\* C20: when a write ends with CapacityExceeded, the entry buffer is not
\* saved at or after the failing chunk: the only save_FCB calls of the run are
\* those of the loop before it, and the records written after the last of
\* them lie in blocks no directory entry refers to.
C20_AbortLeavesTailUnreferenced ==
    (pc = "done" /\ outcome = "CapacityExceeded") =>
        LET lastFlush == Max({0} \cup FCBWrites)
            tail == {k \in RecordWrites : k > lastFlush}
            used == BlocksReferenced
        IN  /\ Cardinality(FCBWrites) = IF Cardinality(RecordWrites) >= BPS THEN 1 ELSE 0
            /\ \A k \in tail : (writes[k].num \div RPD) \notin used

====
